---- MODULE Spec2Model ----
(***************************************************************************)
(* The tab-scoped event router of the Amazon Q chat panel:                 *)
(* class Connector of mynah-ui/ui/connector.ts.  The router owns one       *)
(* sub-connector per feature area (chat, feature-dev, code-transform,      *)
(* commons), a shared tab registry (tabsStorage) and a readiness flag.     *)
(* Every public method of the class is one action; the sub-connector       *)
(* methods it invokes and the messages it sends to the host are recorded   *)
(* per step in calls and sent.                                             *)
(***************************************************************************)
EXTENDS Naturals, Sequences, FiniteSets, TLC

\* ------------------------------------------------------------------ inputs

\* Tab identifiers the UI may pass to the router.
TabIDs == {"t1", "t2"}

\* ChatPayload values.
Payloads == {"p1", "p2"}

\* The (tabID, payload) arguments of the requestGenerativeAIAnswer calls the UI
\* makes: a prompt of its own for each tab.
Prompts == {<<"t1", "p1">>, <<"t2", "p2">>}

\* TabType of storages/tabsStorage, as used by the router's switch statements.
TabTypes == {"cwc", "featuredev", "codetransform", "unknown"}

\* The categories a tab is given once its feature area is determined.
ConcreteTypes == {"cwc", "featuredev", "codetransform"}

\* The value of an optional chain on an absent tab: getTab(id)?.type.
Undefined == "undefined"

\* How many 'message' listeners the window may hold: uiReady is not called
\* again once it has registered this many.
MaxMessageListeners == 2

\* How many requestGenerativeAIAnswer calls the UI makes in a run.
MaxRequests == 1

\* ------------------------------------------------------------------- state

VARIABLES
    tabs,                  \* tabsStorage: registered tab id -> Tab
    everAdded,             \* history: the ids onTabAdd was ever called with
    isUIReady,             \* Connector.isUIReady
    hasOnMessageReceived,  \* props.onMessageReceived !== undefined
    listeners,             \* the window's registered event listeners
    requests,              \* the requestGenerativeAIAnswer calls made so far
    last,                  \* the operation of the last step and what it saw
    calls,                 \* sub-connector methods invoked by the last step
    sent,                  \* host messages sent by the last step
    outcome                \* how the last step's operation completed

vars == <<tabs, everAdded, isUIReady, hasOnMessageReceived, listeners,
          requests, last, calls, sent, outcome>>

\* ------------------------------------------------------------ tab registry

\* The Tab the router inserts in onTabAdd.
NewTab(tabID) ==
    [id |-> tabID, type |-> "unknown", status |-> "free", isSelected |-> TRUE]

\* tabsStorage.getTab(tabID)?.type
TabTypeOf(ts, tabID) ==
    IF tabID \in DOMAIN ts THEN ts[tabID].type ELSE Undefined

\* The identifier of the selected tab, or undefined.
SelectedTabID(ts) ==
    IF \E id \in DOMAIN ts : ts[id].isSelected
    THEN CHOOSE id \in DOMAIN ts : ts[id].isSelected
    ELSE Undefined

\* Mutant: the tab is inserted as given and the other tabs are left as they are.
addTab_KeepSelection(ts, tab) ==
    [id \in DOMAIN ts \cup {tab.id} |-> IF id = tab.id THEN tab ELSE ts[id]]

\* tabsStorage.addTab(tab): inserts (overwrites) the tab; a tab inserted as
\* selected becomes the one selected tab.
addTab(ts, tab) ==
    [id \in DOMAIN ts \cup {tab.id} |->
        IF id = tab.id THEN tab
        ELSE IF tab.isSelected THEN [ts[id] EXCEPT !.isSelected = FALSE]
        ELSE ts[id]]

\* tabsStorage.deleteTab(tabID)
deleteTab(ts, tabID) ==
    [id \in DOMAIN ts \ {tabID} |-> ts[id]]

\* tabsStorage.setSelectedTab(tabID): the registry afterwards.
setSelectedTab(ts, tabID) ==
    IF tabID \in DOMAIN ts
    THEN [id \in DOMAIN ts |-> [ts[id] EXCEPT !.isSelected = (id = tabID)]]
    ELSE ts

\* tabsStorage.updateTabTypeFromUnknown(tabID, tabType): the registry afterwards.
updateTabTypeFromUnknown(ts, tabID, tabType) ==
    IF tabID \in DOMAIN ts /\ ts[tabID].type = "unknown"
    THEN [ts EXCEPT ![tabID].type = tabType]
    ELSE ts

\* ------------------------------------------------------------ observations

\* One invocation of a sub-connector method, made while the registry is ts:
\* seen is the category the registry holds for the tab during the invocation.
CallAt(ts, conn, method, tabID, arg) ==
    [tabID |-> tabID, conn |-> conn, method |-> method, arg |-> arg,
     seen |-> TabTypeOf(ts, tabID)]

\* An invocation made while the registry is as the operation found it.
Call(conn, method, tabID, arg) ==
    CallAt(tabs, conn, method, tabID, arg)

\* One sendMessageToExtension call.
HostMessage(command, type, tabType) ==
    [type |-> type, tabType |-> tabType, command |-> command]

\* What a step records of the operation it ran: its name and arguments, what
\* the registry held for the tab when the operation was called and, for
\* requestGenerativeAIAnswer and its retries, the request it ran for and the
\* handler the tab's type selected when the request was first called.
Observed(op, tabID, arg) ==
    [tabID |-> tabID, type |-> TabTypeOf(tabs, tabID), arg |-> arg, op |-> op,
     req |-> 0, added |-> tabID \in everAdded, atCall |-> Undefined]

\* A step of an operation that leaves the router's own state alone: it only
\* invokes the sub-connector methods c and sends the host messages s.
Dispatch(op, tabID, arg, c, s) ==
    /\ last' = Observed(op, tabID, arg)
    /\ calls' = c
    /\ sent' = s
    /\ outcome' = "ok"
    /\ UNCHANGED <<tabs, everAdded, isUIReady, hasOnMessageReceived,
                   listeners, requests>>

\* ------------------------------------------------------------------- Init

Init ==
    /\ tabs = [id \in {} |-> NewTab(id)]
    /\ everAdded = {}
    /\ isUIReady = FALSE
    /\ hasOnMessageReceived \in BOOLEAN
    /\ listeners = {}
    /\ requests = << >>
    /\ last = [tabID |-> Undefined, type |-> Undefined, arg |-> "",
               op |-> "constructor", req |-> 0, added |-> FALSE,
               atCall |-> Undefined]
    /\ calls = << >>
    /\ sent = << >>
    /\ outcome = "ok"

\* ------------------------------------------------------- routed UI events
\* For each event, the sub-connector methods the router's switch on the
\* tab's type invokes.

\* Mutant: the switch sends every type, an absent tab's included, to the chat
\* handler (a default case in place of case 'cwc').
onSourceLinkClickCalls_Default(tabID) ==
    <<Call("cwChatConnector", "onSourceLinkClick", tabID, "")>>

onSourceLinkClickCalls(tabID) ==
    CASE TabTypeOf(tabs, tabID) = "cwc" ->
            <<Call("cwChatConnector", "onSourceLinkClick", tabID, "")>>
      [] OTHER -> << >>

onSourceLinkClick(tabID) ==
    Dispatch("onSourceLinkClick", tabID, "", onSourceLinkClickCalls(tabID), << >>)

\* Mutant: case 'cwc' lacks its break and falls through to case 'featuredev'.
onResponseBodyLinkClickCalls_FallThrough(tabID) ==
    CASE TabTypeOf(tabs, tabID) = "cwc" ->
            <<Call("cwChatConnector", "onResponseBodyLinkClick", tabID, ""),
              Call("featureDevChatConnector", "onResponseBodyLinkClick", tabID, "")>>
      [] TabTypeOf(tabs, tabID) = "featuredev" ->
            <<Call("featureDevChatConnector", "onResponseBodyLinkClick", tabID, "")>>
      [] TabTypeOf(tabs, tabID) = "codetransform" ->
            <<Call("codeTransformChatConnector", "onResponseBodyLinkClick", tabID, "")>>
      [] OTHER -> << >>

onResponseBodyLinkClickCalls(tabID) ==
    CASE TabTypeOf(tabs, tabID) = "cwc" ->
            <<Call("cwChatConnector", "onResponseBodyLinkClick", tabID, "")>>
      [] TabTypeOf(tabs, tabID) = "featuredev" ->
            <<Call("featureDevChatConnector", "onResponseBodyLinkClick", tabID, "")>>
      [] TabTypeOf(tabs, tabID) = "codetransform" ->
            <<Call("codeTransformChatConnector", "onResponseBodyLinkClick", tabID, "")>>
      [] OTHER -> << >>

onResponseBodyLinkClick(tabID) ==
    Dispatch("onResponseBodyLinkClick", tabID, "",
             onResponseBodyLinkClickCalls(tabID), << >>)

\* Mutant: the switch has case 'cwc' in place of the default case.
onInfoLinkClickCalls_CwcOnly(tabID) ==
    CASE TabTypeOf(tabs, tabID) = "cwc" ->
            <<Call("cwChatConnector", "onInfoLinkClick", tabID, "")>>
      [] OTHER -> << >>

\* The switch has a default case only.
onInfoLinkClickCalls(tabID) ==
    <<Call("cwChatConnector", "onInfoLinkClick", tabID, "")>>

onInfoLinkClick(tabID) ==
    Dispatch("onInfoLinkClick", tabID, "", onInfoLinkClickCalls(tabID), << >>)

\* Mutant: the payload is not passed on to the sub-connector.
requestAnswerCalls_NoPayload(tabID, payload) ==
    CASE TabTypeOf(tabs, tabID) = "codetransform" ->
            <<Call("codeTransformChatConnector", "requestAnswer", tabID, Undefined)>>
      [] OTHER -> << >>

requestAnswerCalls(tabID, payload) ==
    CASE TabTypeOf(tabs, tabID) = "codetransform" ->
            <<Call("codeTransformChatConnector", "requestAnswer", tabID, payload)>>
      [] OTHER -> << >>

requestAnswer(tabID, payload) ==
    Dispatch("requestAnswer", tabID, payload, requestAnswerCalls(tabID, payload), << >>)

clearChatCalls(tabID) ==
    CASE TabTypeOf(tabs, tabID) = "cwc" ->
            <<Call("cwChatConnector", "clearChat", tabID, "")>>
      [] OTHER -> << >>

clearChat(tabID) ==
    Dispatch("clearChat", tabID, "", clearChatCalls(tabID), << >>)

helpCalls(tabID) ==
    CASE TabTypeOf(tabs, tabID) = "cwc" ->
            <<Call("cwChatConnector", "help", tabID, "")>>
      [] OTHER -> << >>

help(tabID) ==
    Dispatch("help", tabID, "", helpCalls(tabID), << >>)

\* The switch has a default case only.
transformCalls(tabID) ==
    <<Call("codeTransformChatConnector", "transform", tabID, "")>>

transform(tabID) ==
    Dispatch("transform", tabID, "", transformCalls(tabID), << >>)

\* cwChatConnector.onTabAdd(tabID, tab.openInteractionType); the router never
\* sets openInteractionType.
onUpdateTabTypeCalls(tabID) ==
    CASE TabTypeOf(tabs, tabID) = "cwc" ->
            <<Call("cwChatConnector", "onTabAdd", tabID, Undefined)>>
      [] OTHER -> << >>

onUpdateTabType(tabID) ==
    Dispatch("onUpdateTabType", tabID, "", onUpdateTabTypeCalls(tabID), << >>)

onKnownTabOpenCalls(tabID) ==
    CASE TabTypeOf(tabs, tabID) = "featuredev" ->
            <<Call("featureDevChatConnector", "onTabOpen", tabID, "")>>
      [] TabTypeOf(tabs, tabID) = "codetransform" ->
            <<Call("codeTransformChatConnector", "onTabOpen", tabID, "")>>
      [] OTHER -> << >>

onKnownTabOpen(tabID) ==
    Dispatch("onKnownTabOpen", tabID, "", onKnownTabOpenCalls(tabID), << >>)

\* The chat handler receives every argument, the feature-dev handler a subset.
onCodeInsertToCursorPositionCalls(tabID) ==
    CASE TabTypeOf(tabs, tabID) = "cwc" ->
            <<Call("cwChatConnector", "onCodeInsertToCursorPosition", tabID, "all")>>
      [] TabTypeOf(tabs, tabID) = "featuredev" ->
            <<Call("featureDevChatConnector", "onCodeInsertToCursorPosition", tabID,
                   "code,type,codeReference")>>
      [] OTHER -> << >>

onCodeInsertToCursorPosition(tabID) ==
    Dispatch("onCodeInsertToCursorPosition", tabID, "",
             onCodeInsertToCursorPositionCalls(tabID), << >>)

onCopyCodeToClipboardCalls(tabID) ==
    CASE TabTypeOf(tabs, tabID) = "cwc" ->
            <<Call("cwChatConnector", "onCopyCodeToClipboard", tabID, "all")>>
      [] TabTypeOf(tabs, tabID) = "featuredev" ->
            <<Call("featureDevChatConnector", "onCopyCodeToClipboard", tabID,
                   "code,type,codeReference")>>
      [] OTHER -> << >>

onCopyCodeToClipboard(tabID) ==
    Dispatch("onCopyCodeToClipboard", tabID, "",
             onCopyCodeToClipboardCalls(tabID), << >>)

\* The commons handler is given the tab's type.
onAuthFollowUpClickedCalls(tabID) ==
    CASE TabTypeOf(tabs, tabID) \in {"codetransform", "cwc", "featuredev"} ->
            <<Call("amazonqCommonsConnector", "authFollowUpClicked", tabID,
                   TabTypeOf(tabs, tabID))>>
      [] OTHER -> << >>

onAuthFollowUpClicked(tabID) ==
    Dispatch("onAuthFollowUpClicked", tabID, "",
             onAuthFollowUpClickedCalls(tabID), << >>)

\* Mutant: the case 'unknown' is missing, so an unknown tab takes the default.
onFollowUpClickedCalls_NoUnknownCase(tabID) ==
    CASE TabTypeOf(tabs, tabID) = "featuredev" ->
            <<Call("featureDevChatConnector", "followUpClicked", tabID, "")>>
      [] TabTypeOf(tabs, tabID) = "codetransform" ->
            <<Call("codeTransformChatConnector", "followUpClicked", tabID, "")>>
      [] OTHER ->
            <<Call("cwChatConnector", "followUpClicked", tabID, "")>>

onFollowUpClickedCalls(tabID) ==
    CASE TabTypeOf(tabs, tabID) = "unknown" ->
            <<Call("amazonqCommonsConnector", "followUpClicked", tabID, "")>>
      [] TabTypeOf(tabs, tabID) = "featuredev" ->
            <<Call("featureDevChatConnector", "followUpClicked", tabID, "")>>
      [] TabTypeOf(tabs, tabID) = "codetransform" ->
            <<Call("codeTransformChatConnector", "followUpClicked", tabID, "")>>
      [] OTHER ->
            <<Call("cwChatConnector", "followUpClicked", tabID, "")>>

onFollowUpClicked(tabID) ==
    Dispatch("onFollowUpClicked", tabID, "", onFollowUpClickedCalls(tabID), << >>)

onFileActionClickCalls(tabID) ==
    CASE TabTypeOf(tabs, tabID) = "featuredev" ->
            <<Call("featureDevChatConnector", "onFileActionClick", tabID, "")>>
      [] OTHER -> << >>

onFileActionClick(tabID) ==
    Dispatch("onFileActionClick", tabID, "", onFileActionClickCalls(tabID), << >>)

onOpenDiffCalls(tabID) ==
    CASE TabTypeOf(tabs, tabID) = "featuredev" ->
            <<Call("featureDevChatConnector", "onOpenDiff", tabID, "")>>
      [] OTHER -> << >>

onOpenDiff(tabID) ==
    Dispatch("onOpenDiff", tabID, "", onOpenDiffCalls(tabID), << >>)

onStopChatResponseCalls(tabID) ==
    CASE TabTypeOf(tabs, tabID) = "featuredev" ->
            <<Call("featureDevChatConnector", "onStopChatResponse", tabID, "")>>
      [] TabTypeOf(tabs, tabID) = "cwc" ->
            <<Call("cwChatConnector", "onStopChatResponse", tabID, "")>>
      [] OTHER -> << >>

onStopChatResponse(tabID) ==
    Dispatch("onStopChatResponse", tabID, "", onStopChatResponseCalls(tabID), << >>)

sendFeedbackCalls(tabID) ==
    CASE TabTypeOf(tabs, tabID) = "featuredev" ->
            <<Call("featureDevChatConnector", "sendFeedback", tabID, "")>>
      [] TabTypeOf(tabs, tabID) = "cwc" ->
            <<Call("cwChatConnector", "onSendFeedback", tabID, "")>>
      [] OTHER -> << >>

sendFeedback(tabID) ==
    Dispatch("sendFeedback", tabID, "", sendFeedbackCalls(tabID), << >>)

onChatItemVotedCalls(tabID) ==
    CASE TabTypeOf(tabs, tabID) = "cwc" ->
            <<Call("cwChatConnector", "onChatItemVoted", tabID, "")>>
      [] TabTypeOf(tabs, tabID) = "featuredev" ->
            <<Call("featureDevChatConnector", "onChatItemVoted", tabID, "")>>
      [] OTHER -> << >>

onChatItemVoted(tabID) ==
    Dispatch("onChatItemVoted", tabID, "", onChatItemVotedCalls(tabID), << >>)

\* The body of triggerSuggestionEngagement is commented out.
triggerSuggestionEngagement(tabID) ==
    Dispatch("triggerSuggestionEngagement", tabID, "", << >>, << >>)

\* Action ids a form button may carry.
ActionIDs == {"codetransform-input-confirm", "open-settings", "other-action"}

\* forms/constants isFormButtonCodeTransform(id)
isFormButtonCodeTransform(id) ==
    id \in {"codetransform-input-confirm"}

\* Mutant: the code-transform handler is invoked from a case 'codetransform'
\* of the switch on the tab's type.
onFormButtonClickCalls_InSwitch(tabID, actionID) ==
    IF isFormButtonCodeTransform(actionID) /\ TabTypeOf(tabs, tabID) = "codetransform"
    THEN <<Call("codeTransformChatConnector", "onFormButtonClick", tabID, actionID)>>
    ELSE << >>

\* The test of the action id comes before the switch and reads no tab.
onFormButtonClickCalls(tabID, actionID) ==
    IF isFormButtonCodeTransform(actionID)
    THEN <<Call("codeTransformChatConnector", "onFormButtonClick", tabID, actionID)>>
    ELSE << >>

onFormButtonClickSent(tabID, actionID) ==
    CASE TabTypeOf(tabs, tabID) = "cwc" ->
            IF actionID = "open-settings"
            THEN <<HostMessage("open-settings", "", "cwc")>>
            ELSE << >>
      [] OTHER -> << >>

onFormButtonClick(tabID, actionID) ==
    Dispatch("onFormButtonClick", tabID, actionID,
             onFormButtonClickCalls(tabID, actionID),
             onFormButtonClickSent(tabID, actionID))

\* ------------------------------------------------------------ tab lifecycle

onTabAdd(tabID) ==
    /\ tabs' = addTab(tabs, NewTab(tabID))
    /\ everAdded' = everAdded \cup {tabID}
    /\ last' = Observed("onTabAdd", tabID, "")
    /\ calls' = << >>
    /\ sent' = << >>
    /\ outcome' = "ok"
    /\ UNCHANGED <<isUIReady, hasOnMessageReceived, listeners, requests>>

\* The UI layer settles the category of a tab added as unknown.
UpdateTabType(tabID, tabType) ==
    /\ TabTypeOf(tabs, tabID) = "unknown"
    /\ tabs' = updateTabTypeFromUnknown(tabs, tabID, tabType)
    /\ last' = Observed("updateTabTypeFromUnknown", tabID, tabType)
    /\ calls' = << >>
    /\ sent' = << >>
    /\ outcome' = "ok"
    /\ UNCHANGED <<everAdded, isUIReady, hasOnMessageReceived, listeners,
                   requests>>

\* The chat handler is told of every tab change, with the previous selection,
\* after tabsStorage.setSelectedTab has run.
onTabChangeCalls(tabId) ==
    <<CallAt(setSelectedTab(tabs, tabId), "cwChatConnector", "onTabChange", tabId,
             SelectedTabID(tabs))>>

onTabChange(tabId) ==
    /\ tabs' = setSelectedTab(tabs, tabId)
    /\ last' = Observed("onTabChange", tabId, "")
    /\ calls' = onTabChangeCalls(tabId)
    /\ sent' = << >>
    /\ outcome' = "ok"
    /\ UNCHANGED <<everAdded, isUIReady, hasOnMessageReceived, listeners,
                   requests>>

\* Mutant: case 'cwc' is the default case, taken for an absent tab too.
onTabRemoveCalls_Default(tabID) ==
    CASE TabTypeOf(tabs, tabID) = "featuredev" ->
            <<CallAt(deleteTab(tabs, tabID), "featureDevChatConnector",
                     "onTabRemove", tabID, "")>>
      [] TabTypeOf(tabs, tabID) = "codetransform" ->
            <<CallAt(deleteTab(tabs, tabID), "codeTransformChatConnector",
                     "onTabRemove", tabID, "")>>
      [] OTHER ->
            <<CallAt(deleteTab(tabs, tabID), "cwChatConnector", "onTabRemove", tabID, "")>>

\* Mutant: the switch runs before tabsStorage.deleteTab, so the sub-connector
\* is invoked while the tab is still registered.
onTabRemoveCalls_BeforeDelete(tabID) ==
    CASE TabTypeOf(tabs, tabID) = "cwc" ->
            <<Call("cwChatConnector", "onTabRemove", tabID, "")>>
      [] TabTypeOf(tabs, tabID) = "featuredev" ->
            <<Call("featureDevChatConnector", "onTabRemove", tabID, "")>>
      [] TabTypeOf(tabs, tabID) = "codetransform" ->
            <<Call("codeTransformChatConnector", "onTabRemove", tabID, "")>>
      [] OTHER -> << >>

\* The switch is on the type of the tab read before the deletion, and runs
\* after it: the sub-connector is invoked on the registry without the tab.
onTabRemoveCalls(tabID) ==
    CASE TabTypeOf(tabs, tabID) = "cwc" ->
            <<CallAt(deleteTab(tabs, tabID), "cwChatConnector", "onTabRemove", tabID, "")>>
      [] TabTypeOf(tabs, tabID) = "featuredev" ->
            <<CallAt(deleteTab(tabs, tabID), "featureDevChatConnector",
                     "onTabRemove", tabID, "")>>
      [] TabTypeOf(tabs, tabID) = "codetransform" ->
            <<CallAt(deleteTab(tabs, tabID), "codeTransformChatConnector",
                     "onTabRemove", tabID, "")>>
      [] OTHER -> << >>

onTabRemove(tabID) ==
    /\ tabs' = deleteTab(tabs, tabID)
    /\ last' = Observed("onTabRemove", tabID, "")
    /\ calls' = onTabRemoveCalls(tabID)
    /\ sent' = << >>
    /\ outcome' = "ok"
    /\ UNCHANGED <<everAdded, isUIReady, hasOnMessageReceived, listeners,
                   requests>>

\* ------------------------------------------------------------ host messages

\* message.data of the MessageEvents the host posts: absent, not JSON, and
\* JSON texts with and without a sender.
MessageData ==
    {Undefined, "{bad", "null", "{}",
     "{\"sender\":\"CWChat\"}", "{\"sender\":\"featureDevChat\"}",
     "{\"sender\":\"codetransform\"}", "{\"sender\":\"other\"}"}

\* The data of the 'message' events the window dispatches to its listeners.
WindowMessageData ==
    {"{bad", "{\"sender\":\"CWChat\"}", "{\"sender\":\"featureDevChat\"}"}

\* JSON.parse(text): a SyntaxError, null, or an object with its sender field.
JSONParse(text) ==
    CASE text = "null" -> [ok |-> TRUE, isNull |-> TRUE, sender |-> Undefined]
      [] text = "{}" -> [ok |-> TRUE, isNull |-> FALSE, sender |-> Undefined]
      [] text = "{\"sender\":\"CWChat\"}" ->
            [ok |-> TRUE, isNull |-> FALSE, sender |-> "CWChat"]
      [] text = "{\"sender\":\"featureDevChat\"}" ->
            [ok |-> TRUE, isNull |-> FALSE, sender |-> "featureDevChat"]
      [] text = "{\"sender\":\"codetransform\"}" ->
            [ok |-> TRUE, isNull |-> FALSE, sender |-> "codetransform"]
      [] text = "{\"sender\":\"other\"}" ->
            [ok |-> TRUE, isNull |-> FALSE, sender |-> "other"]
      [] OTHER -> [ok |-> FALSE, isNull |-> FALSE, sender |-> Undefined]

\* Mutant: the feature-dev branch forwards to the chat sub-connector.
handleMessageReceiveCalls_WrongBranch(data) ==
    CASE data = Undefined -> << >>
      [] ~JSONParse(data).ok -> << >>
      [] JSONParse(data).isNull -> << >>
      [] JSONParse(data).sender \in {"CWChat", "featureDevChat"} ->
            <<Call("cwChatConnector", "handleMessageReceive", Undefined, data)>>
      [] JSONParse(data).sender = "codetransform" ->
            <<Call("codeTransformChatConnector", "handleMessageReceive", Undefined, data)>>
      [] OTHER -> << >>

\* The sub-connector the router forwards a parsed message to.
handleMessageReceiveCalls(data) ==
    CASE data = Undefined -> << >>
      [] ~JSONParse(data).ok -> << >>
      [] JSONParse(data).isNull -> << >>
      [] JSONParse(data).sender = "CWChat" ->
            <<Call("cwChatConnector", "handleMessageReceive", Undefined, data)>>
      [] JSONParse(data).sender = "featureDevChat" ->
            <<Call("featureDevChatConnector", "handleMessageReceive", Undefined, data)>>
      [] JSONParse(data).sender = "codetransform" ->
            <<Call("codeTransformChatConnector", "handleMessageReceive", Undefined, data)>>
      [] OTHER -> << >>

\* How the promise of the async handleMessageReceive settles: nothing catches
\* the SyntaxError of JSON.parse or the TypeError of reading null.sender.
handleMessageReceiveOutcome(data) ==
    CASE data = Undefined -> "ok"
      [] ~JSONParse(data).ok -> "rejected"
      [] JSONParse(data).isNull -> "rejected"
      [] OTHER -> "ok"

\* A caller invokes handleMessageReceive with a MessageEvent.
handleMessageReceive(data) ==
    /\ last' = Observed("handleMessageReceive", Undefined, data)
    /\ calls' = handleMessageReceiveCalls(data)
    /\ sent' = << >>
    /\ outcome' = handleMessageReceiveOutcome(data)
    /\ UNCHANGED <<tabs, everAdded, isUIReady, hasOnMessageReceived,
                   listeners, requests>>

\* ---------------------------------------------------------------- readiness

\* The number of listeners the window holds for an event type.
ListenerCount(ls, type) ==
    Cardinality({l \in ls : l.type = type})

\* window.addEventListener(type, fn): a listener already registered for the
\* same type with the same function is not registered again.
addEventListener(ls, type, fn, bound) ==
    ls \cup {[type |-> type, fn |-> fn, bound |-> bound]}

\* Mutant: the 'message' listener is registered without testing
\* onMessageReceived.
uiReadyListeners_Unconditional(ls, n) ==
    LET withMessage == addEventListener(ls, "message", "handleMessageReceive", n)
        withFocus == addEventListener(withMessage, "focus", "handleApplicationFocus", 0)
    IN  addEventListener(withFocus, "blur", "handleApplicationFocus", 0)

\* The listeners uiReady registers: handleMessageReceive.bind(this) is a new
\* function at every call (the n-th bound function), handleApplicationFocus
\* is the same one.
uiReadyListeners(ls, n) ==
    LET withMessage ==
            IF hasOnMessageReceived
            THEN addEventListener(ls, "message", "handleMessageReceive", n)
            ELSE ls
        withFocus == addEventListener(withMessage, "focus", "handleApplicationFocus", 0)
    IN  addEventListener(withFocus, "blur", "handleApplicationFocus", 0)

\* Mutant: the method flips the flag instead of setting it.
uiReady_Toggle ==
    /\ ListenerCount(listeners, "message") < MaxMessageListeners
    /\ isUIReady' = ~isUIReady
    /\ listeners' = uiReadyListeners(listeners, ListenerCount(listeners, "message") + 1)
    /\ last' = Observed("uiReady", Undefined, "")
    /\ calls' = << >>
    /\ sent' = <<HostMessage("ui-is-ready", Undefined, Undefined)>>
    /\ outcome' = "ok"
    /\ UNCHANGED <<tabs, everAdded, hasOnMessageReceived, requests>>

uiReady ==
    /\ ListenerCount(listeners, "message") < MaxMessageListeners
    /\ isUIReady' = TRUE
    /\ listeners' = uiReadyListeners(listeners, ListenerCount(listeners, "message") + 1)
    /\ last' = Observed("uiReady", Undefined, "")
    /\ calls' = << >>
    /\ sent' = <<HostMessage("ui-is-ready", Undefined, Undefined)>>
    /\ outcome' = "ok"
    /\ UNCHANGED <<tabs, everAdded, hasOnMessageReceived, requests>>

handleApplicationFocusSent(type) ==
    <<HostMessage("ui-focus", type, "cwc")>>

\* A caller invokes handleApplicationFocus with a FocusEvent.
handleApplicationFocus(type) ==
    Dispatch("handleApplicationFocus", Undefined, type, << >>,
             handleApplicationFocusSent(type))

\* The sequence s repeated n times.
RECURSIVE Repeat(_, _)
Repeat(s, n) ==
    IF n = 0 THEN << >> ELSE s \o Repeat(s, n - 1)

\* The window dispatches a 'message' event: every registered 'message'
\* listener runs handleMessageReceive on it.
WindowMessage(data) ==
    /\ last' = Observed("window.message", Undefined, data)
    /\ calls' = Repeat(handleMessageReceiveCalls(data), ListenerCount(listeners, "message"))
    /\ sent' = << >>
    /\ outcome' = IF ListenerCount(listeners, "message") > 0
                  THEN handleMessageReceiveOutcome(data) ELSE "ok"
    /\ UNCHANGED <<tabs, everAdded, isUIReady, hasOnMessageReceived,
                   listeners, requests>>

\* The window dispatches a 'focus' or 'blur' event to its listeners.
WindowFocus(type) ==
    Dispatch("window." \o type, Undefined, type, << >>,
             Repeat(handleApplicationFocusSent(type), ListenerCount(listeners, type)))

\* ------------------------------------------------- requestGenerativeAIAnswer

\* The handler the ready branch of requestGenerativeAIAnswer invokes.
GenerativeAIHandler(tabID) ==
    CASE TabTypeOf(tabs, tabID) = "featuredev" -> "featureDevChatConnector"
      [] OTHER -> "cwChatConnector"

\* Mutant: the executor delivers without testing isUIReady.
requestGenerativeAIAnswerCalls_Ungated(tabID, payload) ==
    <<Call(GenerativeAIHandler(tabID), "requestGenerativeAIAnswer", tabID, payload)>>

\* The body of the promise executor: deliver when ready, else nothing.
requestGenerativeAIAnswerCalls(tabID, payload) ==
    IF isUIReady
    THEN <<Call(GenerativeAIHandler(tabID), "requestGenerativeAIAnswer", tabID, payload)>>
    ELSE << >>

\* Mutant: the not-ready branch returns without scheduling a retry.
requestGenerativeAIAnswerDefers_Never ==
    FALSE

\* Mutant: the ready branch lacks its else and schedules a retry as well.
requestGenerativeAIAnswerDefers_Always ==
    TRUE

\* Whether the executor schedules a retry with setTimeout.
requestGenerativeAIAnswerDefers ==
    ~isUIReady

\* No retry is scheduled for a request: its closure is released.
NoTimer == [tabID |-> Undefined, payload |-> Undefined]

\* The retry setTimeout schedules: a closure over tabID and payload.
Timer(tabID, payload) == [tabID |-> tabID, payload |-> payload]

\* Mutant: the retry is scheduled with setInterval and stays scheduled after
\* it has fired.
ScheduledAfterFire_Interval(n) ==
    n

\* The timers of a request still scheduled once one of n has fired: a
\* setTimeout timer fires once.
ScheduledAfterFire(n) ==
    n - 1

\* Mutant: the ready branch calls resolve once it has invoked the handler.
PromiseAfterExecutor_ResolvedOnDelivery(delivered) ==
    IF delivered > 0 THEN "resolved" ELSE "pending"

\* The promise of a request after an executor ran for it, with delivered
\* handler invocations made so far: no branch calls resolve or reject.
PromiseAfterExecutor(delivered) ==
    "pending"

\* A request after the executor ran for it with tabID and payload, having
\* made delivered handler invocations before and with scheduled retries left:
\* the handler invocations made for it so far, the closure of its retries,
\* its promise, the number of retries now scheduled and, while a retry is
\* scheduled, the handler the tab's type selected at the first call.
Executed(delivered, scheduled, tabID, payload, atCall) ==
    [atCall |-> IF requestGenerativeAIAnswerDefers \/ scheduled > 0
                THEN atCall ELSE Undefined,
     delivered |-> delivered + Len(requestGenerativeAIAnswerCalls(tabID, payload)),
     timer |-> IF requestGenerativeAIAnswerDefers \/ scheduled > 0
               THEN Timer(tabID, payload) ELSE NoTimer,
     promise |-> PromiseAfterExecutor(
                    delivered + Len(requestGenerativeAIAnswerCalls(tabID, payload))),
     timers |-> IF requestGenerativeAIAnswerDefers THEN scheduled + 1 ELSE scheduled]

\* The UI calls requestGenerativeAIAnswer(tabID, payload).  Neither resolve
\* nor reject of the returned promise is ever called.
requestGenerativeAIAnswer(tabID, payload) ==
    /\ Len(requests) < MaxRequests
    /\ requests' = Append(requests,
            Executed(0, 0, tabID, payload, GenerativeAIHandler(tabID)))
    /\ last' = [Observed("requestGenerativeAIAnswer", tabID, payload)
                    EXCEPT !.req = Len(requests) + 1,
                           !.atCall = GenerativeAIHandler(tabID)]
    /\ calls' = requestGenerativeAIAnswerCalls(tabID, payload)
    /\ sent' = << >>
    /\ outcome' = "ok"
    /\ UNCHANGED <<tabs, everAdded, isUIReady, hasOnMessageReceived,
                   listeners>>

\* Mutant: the handler is chosen when the request is first called and the
\* retry invokes that one.
RetryCalls_RoutedAtCall(r) ==
    IF isUIReady
    THEN <<Call(requests[r].atCall, "requestGenerativeAIAnswer",
                requests[r].timer.tabID, requests[r].timer.payload)>>
    ELSE << >>

\* The callback of a retry timer of request r: it calls
\* requestGenerativeAIAnswer again with the tabID and payload of its closure.
RetryCalls(r) ==
    requestGenerativeAIAnswerCalls(requests[r].timer.tabID, requests[r].timer.payload)

\* A 2000 ms timer of request r fires.
TimerFire(r) ==
    /\ r \in DOMAIN requests
    /\ requests[r].timers > 0
    /\ requests' = [requests EXCEPT ![r] =
            Executed(@.delivered, ScheduledAfterFire(@.timers),
                     @.timer.tabID, @.timer.payload, @.atCall)]
    /\ last' = [Observed("setTimeout", requests[r].timer.tabID, requests[r].timer.payload)
                    EXCEPT !.req = r, !.atCall = requests[r].atCall]
    /\ calls' = RetryCalls(r)
    /\ sent' = << >>
    /\ outcome' = "ok"
    /\ UNCHANGED <<tabs, everAdded, isUIReady, hasOnMessageReceived,
                   listeners>>

\* --------------------------------------------------------------------- Next

Next ==
    \/ \E tabID \in TabIDs :
        \/ onSourceLinkClick(tabID)
        \/ onResponseBodyLinkClick(tabID)
        \/ onInfoLinkClick(tabID)
        \/ clearChat(tabID)
        \/ help(tabID)
        \/ transform(tabID)
        \/ onUpdateTabType(tabID)
        \/ onKnownTabOpen(tabID)
        \/ onCodeInsertToCursorPosition(tabID)
        \/ onCopyCodeToClipboard(tabID)
        \/ onAuthFollowUpClicked(tabID)
        \/ onFollowUpClicked(tabID)
        \/ onFileActionClick(tabID)
        \/ onOpenDiff(tabID)
        \/ onStopChatResponse(tabID)
        \/ sendFeedback(tabID)
        \/ onChatItemVoted(tabID)
        \/ triggerSuggestionEngagement(tabID)
        \/ onTabAdd(tabID)
        \/ onTabChange(tabID)
        \/ onTabRemove(tabID)
    \/ \E tabID \in TabIDs, tabType \in ConcreteTypes : UpdateTabType(tabID, tabType)
    \/ \E tabID \in TabIDs, payload \in Payloads : requestAnswer(tabID, payload)
    \/ \E prompt \in Prompts : requestGenerativeAIAnswer(prompt[1], prompt[2])
    \/ \E r \in 1..MaxRequests : TimerFire(r)
    \/ \E data \in MessageData : handleMessageReceive(data)
    \/ \E data \in WindowMessageData : WindowMessage(data)
    \/ \E type \in {"focus", "blur"} :
        \/ handleApplicationFocus(type)
        \/ WindowFocus(type)
    \/ uiReady
    \/ \E tabID \in TabIDs, actionID \in ActionIDs : onFormButtonClick(tabID, actionID)

Spec == Init /\ [][Next]_vars

\* The scheduling the retry relies on: the UI layer does call uiReady, and the
\* event loop fires every pending setTimeout timer.
Fairness ==
    /\ WF_vars(uiReady)
    /\ \A r \in 1..MaxRequests : WF_vars(TimerFire(r))

\* The operations that bear on the readiness gate: those that change the
\* registry, the readiness flag or a request.  Every other operation leaves
\* tabs, isUIReady and requests unchanged.
GateNext ==
    \/ \E tabID \in TabIDs :
        \/ onTabAdd(tabID)
        \/ onTabChange(tabID)
        \/ onTabRemove(tabID)
    \/ \E tabID \in TabIDs, tabType \in ConcreteTypes : UpdateTabType(tabID, tabType)
    \/ \E prompt \in Prompts : requestGenerativeAIAnswer(prompt[1], prompt[2])
    \/ \E r \in 1..MaxRequests : TimerFire(r)
    \/ uiReady

LiveSpec == Init /\ [][GateNext]_vars /\ Fairness

\* ------------------------------------------------------------------ claims

\* The sub-connector that owns a concrete category.
CategoryHandler(type) ==
    CASE type = "featuredev" -> "featureDevChatConnector"
      [] type = "codetransform" -> "codeTransformChatConnector"
      [] OTHER -> "cwChatConnector"

\* The last step ran a router operation keyed by a tab identifier that had
\* never been added when the operation was called.
OnNeverAddedTab ==
    /\ last.tabID \in TabIDs
    /\ ~last.added
    /\ last.op \notin {"onTabAdd", "updateTabTypeFromUnknown"}

C2_InvalidContentIsSwallowed ==
    (/\ last.op = "handleMessageReceive"
     /\ last.arg # Undefined
     /\ ~JSONParse(last.arg).ok)
        => (calls = << >> /\ outcome = "ok")

\* uiReady has run at least once: it registers the focus listener at every call.
UiReadyCalled ==
    ListenerCount(listeners, "focus") > 0

\* C3: no sub-connector's requestGenerativeAIAnswer is invoked while isUIReady
\* is false: every such invocation, immediate or by a retry, happens after
\* uiReady has set the flag.
C3_NoGenerativeAnswerBeforeReady ==
    /\ \A i \in DOMAIN calls :
        calls[i].method = "requestGenerativeAIAnswer" =>
            (isUIReady /\ UiReadyCalled)
    /\ \A r \in DOMAIN requests :
        requests[r].delivered > 0 => (isUIReady /\ UiReadyCalled)

\* C3 witness: a request deferred before uiReady was delivered by a retry.
C3_Witness ==
    /\ last.op = "setTimeout"
    /\ Len(calls) = 1
    /\ calls[1].method = "requestGenerativeAIAnswer"
    /\ requests[last.req].delivered = 1

\* The last step was the call requestGenerativeAIAnswer(tabID, payload), made
\* as request r before uiReady.
CalledBeforeReady(r, tabID, payload) ==
    /\ last.op = "requestGenerativeAIAnswer"
    /\ last.req = r
    /\ last.tabID = tabID
    /\ last.arg = payload
    /\ ~isUIReady

\* A step of request r (the call or one of its retries) invoked exactly the
\* method requestGenerativeAIAnswer of sub-connector conn with tabID, payload.
DeliveredTo(r, conn, tabID, payload) ==
    /\ last.req = r
    /\ calls = <<Call(conn, "requestGenerativeAIAnswer", tabID, payload)>>

\* C4 as stated, in the form a finite run refutes: when a retry delivers a
\* deferred request for a tab of a concrete category, it invokes the handler
\* of that category with the call's tabID and payload.  (A request is
\* delivered once: one delivered elsewhere never reaches that handler.)
C4_DeliveredToCategoryHandler ==
    (last.op = "setTimeout" /\ calls # << >> /\ last.type \in ConcreteTypes) =>
        DeliveredTo(last.req, CategoryHandler(last.type), last.tabID, last.arg)

\* C4 amended: under fair timer firing and an eventual uiReady, a
\* requestGenerativeAIAnswer(tabID, payload) call made before uiReady is
\* eventually delivered with that tabID and payload, to the feature-dev
\* handler if the tab's category is featuredev when the retry delivers it and
\* to the chat handler otherwise.
C4_DeferredEventuallyDelivered ==
    \A r \in 1..MaxRequests, tabID \in TabIDs, payload \in Payloads :
        CalledBeforeReady(r, tabID, payload) ~>
            (/\ last.op = "setTimeout"
             /\ DeliveredTo(r, IF last.type = "featuredev"
                               THEN "featureDevChatConnector"
                               ELSE "cwChatConnector", tabID, payload))

\* C4 witness: a retry delivered a deferred request for a featuredev tab to
\* the feature-dev handler, with the payload of the call.
C4_Witness ==
    /\ last.op = "setTimeout"
    /\ last.type = "featuredev"
    /\ DeliveredTo(last.req, "featureDevChatConnector", last.tabID, "p2")

\* C5: onFollowUpClicked on a registered tab invokes exactly one handler,
\* chosen by the tab's category at the call: commons for unknown, feature-dev
\* for featuredev, code-transform for codetransform, chat otherwise.
C5_FollowUpRouting ==
    (last.op = "onFollowUpClicked" /\ last.type # Undefined) =>
        calls = <<Call(IF last.type = "unknown"
                       THEN "amazonqCommonsConnector"
                       ELSE CategoryHandler(last.type),
                       "followUpClicked", last.tabID, "")>>

\* C5 witness: the event on a tab whose category was set to featuredev (every
\* tab is added as unknown) went to the feature-dev handler.
C5_Witness ==
    /\ last.op = "onFollowUpClicked"
    /\ last.type = "featuredev"
    /\ calls = <<Call("featureDevChatConnector", "followUpClicked", last.tabID, "")>>

\* C6: onTabRemove(id) for an id that is not in the registry invokes no
\* sub-connector, raises nothing and leaves the registry unchanged.
C6_RemoveUnknownTab ==
    [][(last'.op = "onTabRemove" /\ last'.tabID \notin DOMAIN tabs) =>
            (calls' = << >> /\ outcome' = "ok" /\ tabs' = tabs)]_vars

\* C6 witness: onTabRemove ran for an unregistered id while another tab was
\* registered, and that tab is still there.
C6_Witness ==
    /\ last.op = "onTabRemove"
    /\ last.type = Undefined
    /\ calls = << >>
    /\ DOMAIN tabs # {}

\* The tabs of the registry marked selected.
SelectedTabs ==
    {id \in DOMAIN tabs : tabs[id].isSelected}

C8_ListenersRegisteredOnce ==
    (UiReadyCalled /\ hasOnMessageReceived) =>
        /\ ListenerCount(listeners, "message") = 1
        /\ ListenerCount(listeners, "focus") = 1
        /\ ListenerCount(listeners, "blur") = 1
        /\ (last.op = "window.message" /\ last.arg = "{\"sender\":\"CWChat\"}")
                => Len(calls) = 1

\* C9: handleMessageReceive on a well-formed payload forwards it to exactly
\* the sub-connector whose sender tag equals the payload's sender, and to
\* none for any other or a missing sender.
C9_SenderRouting ==
    (/\ last.op = "handleMessageReceive"
     /\ last.arg # Undefined
     /\ JSONParse(last.arg).ok) =>
        calls =
            CASE last.arg = "{\"sender\":\"CWChat\"}" ->
                    <<Call("cwChatConnector", "handleMessageReceive", Undefined, last.arg)>>
              [] last.arg = "{\"sender\":\"featureDevChat\"}" ->
                    <<Call("featureDevChatConnector", "handleMessageReceive",
                           Undefined, last.arg)>>
              [] last.arg = "{\"sender\":\"codetransform\"}" ->
                    <<Call("codeTransformChatConnector", "handleMessageReceive",
                           Undefined, last.arg)>>
              [] OTHER -> << >>

\* C9 witness: a message of sender featureDevChat reached the feature-dev
\* sub-connector.
C9_Witness ==
    /\ last.op = "handleMessageReceive"
    /\ last.arg = "{\"sender\":\"featureDevChat\"}"
    /\ Len(calls) = 1
    /\ calls[1].conn = "featureDevChatConnector"

\* C10 as stated: requestAnswer on a registered tab of a concrete category
\* invokes that category's requestAnswer with the same id and payload.
C10_RequestAnswerPerCategory ==
    (last.op = "requestAnswer" /\ last.type \in ConcreteTypes) =>
        calls = <<Call(CategoryHandler(last.type), "requestAnswer",
                       last.tabID, last.arg)>>

\* C10 amended: requestAnswer on a registered tab invokes the code-transform
\* sub-connector's requestAnswer with the same id and payload when the tab's
\* category is codetransform, and invokes no sub-connector when it is cwc,
\* featuredev or unknown.
C10_RequestAnswerCodeTransformOnly ==
    (last.op = "requestAnswer" /\ last.type # Undefined) =>
        calls = IF last.type = "codetransform"
                THEN <<Call("codeTransformChatConnector", "requestAnswer",
                            last.tabID, last.arg)>>
                ELSE << >>

\* C10 witness: requestAnswer on a codetransform tab reached the
\* code-transform sub-connector with the payload.
C10_Witness ==
    /\ last.op = "requestAnswer"
    /\ last.type = "codetransform"
    /\ calls = <<Call("codeTransformChatConnector", "requestAnswer", last.tabID, "p2")>>

\* C11: once a tab's category is concrete, no router operation that leaves the
\* tab in the registry makes its category unknown again; a repeated onTabAdd
\* with the same id does not revert it.
C11_CategoryNeverReverts ==
    [][\A id \in TabIDs :
        (/\ TabTypeOf(tabs, id) \in ConcreteTypes
         /\ id \in DOMAIN tabs') => TabTypeOf(tabs', id) # "unknown"]_vars

\* C12: onInfoLinkClick on a tab of any category (cwc, featuredev,
\* codetransform, unknown) invokes the chat handler's onInfoLinkClick and
\* nothing else.
C12_InfoLinkToChatHandler ==
    (last.op = "onInfoLinkClick" /\ last.type \in TabTypes) =>
        calls = <<Call("cwChatConnector", "onInfoLinkClick", last.tabID, "")>>

\* C12 witness: onInfoLinkClick on a codetransform tab reached the chat
\* handler.
C12_Witness ==
    /\ last.op = "onInfoLinkClick"
    /\ last.type = "codetransform"
    /\ calls = <<Call("cwChatConnector", "onInfoLinkClick", last.tabID, "")>>

\* C13: onResponseBodyLinkClick invokes exactly the handler of the tab's
\* category when it is cwc, featuredev or codetransform, and no handler when
\* it is unknown.
C13_ResponseBodyLinkRouting ==
    (last.op = "onResponseBodyLinkClick" /\ last.type \in TabTypes) =>
        calls = IF last.type = "unknown"
                THEN << >>
                ELSE <<Call(CategoryHandler(last.type), "onResponseBodyLinkClick",
                            last.tabID, "")>>

\* C13 witness: onResponseBodyLinkClick on a cwc tab reached the chat handler
\* alone.
C13_Witness ==
    /\ last.op = "onResponseBodyLinkClick"
    /\ last.type = "cwc"
    /\ calls = <<Call("cwChatConnector", "onResponseBodyLinkClick", last.tabID, "")>>

\* C14: while isUIReady is false a requestGenerativeAIAnswer call keeps being
\* rescheduled: every request made has exactly one retry scheduled, for the
\* tabID and payload of the call, no handler has been invoked for it and its
\* promise has not failed; a timer firing with isUIReady false invokes
\* nothing, raises nothing and leaves exactly one retry scheduled again.
C14_RescheduledWhileNotReady ==
    ~isUIReady =>
        /\ \A r \in DOMAIN requests :
            /\ requests[r].timers = 1
            /\ <<requests[r].timer.tabID, requests[r].timer.payload>> \in Prompts
            /\ requests[r].delivered = 0
            /\ requests[r].promise = "pending"
        /\ last.op \in {"requestGenerativeAIAnswer", "setTimeout"} =>
            /\ calls = << >>
            /\ outcome = "ok"
            /\ requests[last.req].timer = Timer(last.tabID, last.arg)

\* C14 witness: a retry timer fired with isUIReady false and one retry is
\* scheduled again.
C14_Witness ==
    /\ last.op = "setTimeout"
    /\ ~isUIReady
    /\ requests[last.req].timers = 1
    /\ calls = << >>

\* C15: onTabRemove(id) on a registered tab deletes the tab before it
\* notifies: the registry no longer contains id when the sub-connector's
\* onTabRemove runs (nor afterwards); exactly the handler of the category the
\* tab had before the deletion is notified for cwc, featuredev and
\* codetransform, and none for unknown.
C15_DeleteThenNotify ==
    (last.op = "onTabRemove" /\ last.type # Undefined) =>
        /\ last.tabID \notin DOMAIN tabs
        /\ \A i \in DOMAIN calls : calls[i].seen = Undefined
        /\ Len(calls) = IF last.type = "unknown" THEN 0 ELSE 1
        /\ \A i \in DOMAIN calls :
            /\ calls[i].conn = CategoryHandler(last.type)
            /\ calls[i].method = "onTabRemove"
            /\ calls[i].tabID = last.tabID

\* C15 witness: onTabRemove of a codetransform tab notified the
\* code-transform handler, which found the tab gone.
C15_Witness ==
    /\ last.op = "onTabRemove"
    /\ last.type = "codetransform"
    /\ Len(calls) = 1
    /\ calls[1].conn = "codeTransformChatConnector"
    /\ calls[1].seen = Undefined

\* C16: each requestGenerativeAIAnswer call leads to at most one handler
\* invocation in total: a request has at most one retry scheduled at any
\* time, no step invokes more than one handler for it, and once it has been
\* delivered it has no retry left and is not delivered again.
C16_AtMostOneDelivery ==
    /\ \A r \in DOMAIN requests :
        /\ requests[r].delivered <= 1
        /\ requests[r].timers <= 1
        /\ requests[r].delivered = 1 => requests[r].timers = 0
    /\ last.op \in {"requestGenerativeAIAnswer", "setTimeout"} => Len(calls) <= 1

\* C16 witness: a request deferred before uiReady has been delivered by a
\* retry, once, and has no retry left.
C16_Witness ==
    /\ last.op = "setTimeout"
    /\ Len(calls) = 1
    /\ requests[last.req].delivered = 1
    /\ requests[last.req].timers = 0
    /\ requests[last.req].timer = NoTimer

\* C17: a deferred requestGenerativeAIAnswer is routed by the tab's category
\* when the retry delivers it, not by the category at the original call: the
\* delivering retry invokes the feature-dev handler if the tab is featuredev
\* then, and the chat handler in every other case (another category, unknown
\* or no longer registered), with the tabID and payload of the call, whatever
\* handler the category at the call selected.
C17_RoutedAtDelivery ==
    (last.op = "setTimeout" /\ calls # << >>) =>
        /\ last.atCall \in {"featureDevChatConnector", "cwChatConnector"}
        /\ calls = <<Call(IF last.type = "featuredev"
                          THEN "featureDevChatConnector"
                          ELSE "cwChatConnector",
                          "requestGenerativeAIAnswer", last.tabID, last.arg)>>

\* C17 witness: a request called for a featuredev tab was delivered, after
\* the tab had been removed, to the chat handler.
C17_Witness ==
    /\ last.op = "setTimeout"
    /\ last.atCall = "featureDevChatConnector"
    /\ last.type = Undefined
    /\ calls = <<Call("cwChatConnector", "requestGenerativeAIAnswer",
                      last.tabID, last.arg)>>

\* C18: the promise returned by requestGenerativeAIAnswer is never settled:
\* it is pending after an immediate delivery, after a deferral, after every
\* retry and after the retry that delivers.
C18_PromiseNeverSettled ==
    /\ \A r \in DOMAIN requests : requests[r].promise = "pending"
    /\ last.op \in {"requestGenerativeAIAnswer", "setTimeout"} => outcome = "ok"

\* C18 witness: a request has been delivered to a handler at once, the UI
\* being ready, and its promise is still pending.
C18_Witness ==
    /\ last.op = "requestGenerativeAIAnswer"
    /\ Len(calls) = 1
    /\ requests[last.req].delivered = 1
    /\ requests[last.req].promise = "pending"

\* C19: isUIReady starts false, only uiReady changes it, and once true it
\* stays true whatever operation runs.
C19_ReadyIsMonotonic ==
    /\ ~isUIReady
    /\ [][/\ isUIReady => isUIReady'
          /\ isUIReady' # isUIReady => last'.op = "uiReady"]_vars

\* C19 witness: uiReady has been called twice, a tab was then removed, and
\* the flag is still true.
C19_Witness ==
    /\ isUIReady
    /\ ListenerCount(listeners, "message") = 2
    /\ last.op = "onTabRemove"
    /\ last.type # Undefined

\* C20: a window 'message' event invokes no sub-connector before uiReady has
\* been called or when the connector was constructed without
\* onMessageReceived: the window holds a 'message' listener only after
\* uiReady and only with onMessageReceived defined, whereas it holds the
\* focus and blur listeners after uiReady in either case.
C20_MessageListenerGate ==
    /\ (last.op = "window.message" /\ (~isUIReady \/ ~hasOnMessageReceived)) =>
            calls = << >>
    /\ (~isUIReady \/ ~hasOnMessageReceived) => ListenerCount(listeners, "message") = 0
    /\ (isUIReady /\ hasOnMessageReceived) => ListenerCount(listeners, "message") >= 1
    /\ isUIReady =>
        /\ ListenerCount(listeners, "focus") = 1
        /\ ListenerCount(listeners, "blur") = 1
    /\ ~isUIReady => listeners = {}

\* C20 witness: after uiReady on a connector constructed without
\* onMessageReceived, a window message of sender CWChat reached no
\* sub-connector, while the focus and blur listeners are registered.
C20_Witness ==
    /\ last.op = "window.message"
    /\ last.arg = "{\"sender\":\"CWChat\"}"
    /\ isUIReady
    /\ ~hasOnMessageReceived
    /\ calls = << >>
    /\ ListenerCount(listeners, "focus") = 1
    /\ ListenerCount(listeners, "blur") = 1

\* C21: onFormButtonClick invokes the code-transform handler's
\* onFormButtonClick exactly when the action id is a code-transform form
\* button, whatever the tab's category and whether or not the tab is
\* registered; it sends the 'open-settings' host message exactly when the
\* tab's category is cwc and the action id is 'open-settings'; it does nothing
\* else.
C21_FormButtonRouting ==
    last.op = "onFormButtonClick" =>
        /\ calls = IF isFormButtonCodeTransform(last.arg)
                   THEN <<Call("codeTransformChatConnector", "onFormButtonClick",
                               last.tabID, last.arg)>>
                   ELSE << >>
        /\ sent = IF last.type = "cwc" /\ last.arg = "open-settings"
                  THEN <<HostMessage("open-settings", "", "cwc")>>
                  ELSE << >>
        /\ outcome = "ok"

\* C21 witness: a code-transform form button clicked on a tab identifier
\* that is not registered reached the code-transform handler, and no host
\* message was sent.
C21_Witness ==
    /\ last.op = "onFormButtonClick"
    /\ last.type = Undefined
    /\ last.arg = "codetransform-input-confirm"
    /\ calls = <<Call("codeTransformChatConnector", "onFormButtonClick",
                      last.tabID, "codetransform-input-confirm")>>
    /\ sent = << >>

====
